---- MODULE Spec2Model ----
(***************************************************************************)
(* Model of the freebird event reconciliation layer:                       *)
(*   - lib/components/handlers.js : the netcore notification handlers      *)
(*   - lib/freebird.js            : findByNet/findById, _fire, _tweet,     *)
(*                                  _changeFireMode, _clearEventQueue      *)
(* The registry (register/unregister), the device/gadget objects of        *)
(* freebird-base and the netcore are collaborators whose code is not part  *)
(* of the two files; they are modelled by what the handlers rely on.       *)
(***************************************************************************)
EXTENDS Integers, Sequences, FiniteSets, Bags, TLC

(***************************************************************************)
(* Bounds of the model                                                     *)
(***************************************************************************)
MaxNotif   == 3     \* notifications delivered in a run of Spec
MaxPoll    == 2     \* runs of doGadCook one notification makes in a run of Spec
                    \* while the device's id stays unassigned
RetryNotif == 2     \* notifications delivered in a run of SpecRetry, where the
                    \* polls of doGadCook are not bounded
MaxFire    == 3     \* events passed to _fire by callers in a run of SpecFire
MaxDrain   == 2     \* keepReleasing callbacks pending at a time in a run of SpecFire
LeaveNotif == 4     \* notifications delivered in a run of SpecLeave

(***************************************************************************)
(* Program constants                                                       *)
(***************************************************************************)
MaxSync    == 50    \* handlers.js:268  if (++syncTimes > 50)
RetryDelay == 20    \* handlers.js:273  setTimeout(..., 20)
BannedNoId == 0     \* handlers.js:502  component ? component.get('id') : 0

NoId == 0 - 1       \* an id that is not assigned yet (null)

Netcores == {"nc"}              \* freebird._netcores: "zz" names no netcore

Msg(nc, perm, aux) == [nc |-> nc, perm |-> perm, aux |-> aux]

\* the notifications the netcores deliver: { ncName, permAddr [, auxId] }
DevMsgs == {Msg("nc", "a", 0), Msg("nc", "b", 0), Msg("zz", "a", 0)}
GadMsgs == {Msg("nc", "a", 1), Msg("nc", "a", 2), Msg("nc", "b", 1)}
LeaveMsgs == {Msg("nc", "a", 0), Msg("nc", "b", 0)}
BanDevMsgs == {Msg("nc", "a", 0)}
BanGadMsgs == {Msg("nc", "a", 1)}
IndTypes == {"bannedIncoming", "bannedReport"}

VARIABLES
    devbox,         \* freebird._devbox : sequence of device objects
    gadbox,         \* freebird._gadbox : sequence of gadget objects
    joinable,       \* nc.isJoinable()
    gadEventQueue,  \* freebird._gadEventQueue
    nListeners,     \* number of queueEvent listeners on NcGadIncoming
    procs,          \* bag of handler invocations waiting for a callback
    nNotif,         \* notifications delivered so far
    budget,         \* the bounds of this run: notifications, polls per notification
    last,           \* the handler or callback that ran last, and the calls it made
    fireMode,       \* freebird._fire : "normal" (_normalFire) or "lazy" (_lazyFire)
    eventQueue,     \* freebird._eventQueue
    tickQ,          \* callbacks scheduled with process.nextTick
    immQ,           \* callbacks scheduled with setImmediate
    delivered,      \* the events emitted to the subscribers, in order
    nFired,         \* the calls of _fire so far
    mark,           \* one call of _changeFireMode(1): the _fire calls before it, its queue
    dropped,        \* the events _clearEventQueue discarded
    lazyAt          \* the _fire calls made before the buffered mode was asked for by
                    \* _changeFireMode(0) with no _changeFireMode(1) since, NoId if it is not

syncVars == <<devbox, gadbox, joinable, gadEventQueue, nListeners, procs, nNotif, budget>>

fireVars == <<fireMode, eventQueue, tickQ, immQ, delivered, nFired, mark, dropped, lazyAt>>

vars == <<syncVars, last, fireVars>>

(***************************************************************************)
(* Small helpers                                                           *)
(***************************************************************************)
BagAdd(B, e) == B (+) SetToBag({e})
BagDel(B, e) == B (-) SetToBag({e})

\* the least element of a set of slots, 0 for the empty set
First(S) == IF S = {} THEN 0 ELSE CHOOSE i \in S : \A j \in S : i <= j

Call(op, a, b, id) == [op |-> op, a |-> a, b |-> b, id |-> id]
Fire(evt, id)            == Call("fire", evt, "", id)
Tweet(subsys, ind, id)   == Call("tweet", subsys, ind, id)

Last(act, nc, perm, aux, found, ok, n, out) ==
    [act |-> act, nc |-> nc, perm |-> perm, aux |-> aux, found |-> found,
     ok |-> ok, join |-> joinable, n |-> n, out |-> out]

(***************************************************************************)
(* Registry and domain objects                                             *)
(*   A device object is a record; its place in devbox is its box id. The   *)
(*   object's own id field stays NoId until register's callback assigns it *)
(*   (handlers.js:267 polls for exactly this). An unregistered object      *)
(*   stays in the sequence with inBox = FALSE, so that closures holding it *)
(*   keep referring to the same object.                                    *)
(***************************************************************************)
NewDevice(nc, perm) ==
    [nc |-> nc, perm |-> perm, id |-> NoId, inBox |-> TRUE,
     status |-> "unknown", removing |-> FALSE, gadTable |-> <<>>]

NewGadget(dev, nc, perm, aux) ==
    [dev |-> dev, nc |-> nc, perm |-> perm, aux |-> aux, id |-> NoId, inBox |-> TRUE]

\* freebird.findByNet('netcore', ncName)
FindNetcore(nc) == nc \in Netcores

\* freebird.findByNet('device', ncName, permAddr): the slot of the first match, 0 if none
FindDev(box, nc, perm) ==
    First({i \in 1..Len(box) : box[i].inBox /\ box[i].perm = perm /\ box[i].nc = nc})

\* freebird.findByNet('gadget', ncName, permAddr, auxId)
FindGad(box, nc, perm, aux) ==
    First({i \in 1..Len(box) : box[i].inBox /\ box[i].perm = perm
                                 /\ box[i].aux = aux /\ box[i].nc = nc})

\* freebird.findById('gadget', id): box lookup by id, 0 if none
FindGadById(box, id) ==
    IF id \in 1..Len(box) /\ box[id].inBox THEN id ELSE 0

\* FBase.createGadget(dev, auxId, raw): the device's gadget table gets a record
\* for auxId whose gadId is connected once the gadget has an id
LinkGad(tbl, aux) ==
    IF \E i \in 1..Len(tbl) : tbl[i].aux = aux THEN tbl
    ELSE Append(tbl, [aux |-> aux, gadId |-> NoId])

ConnectGad(tbl, aux, id) ==
    [i \in 1..Len(tbl) |-> IF tbl[i].aux = aux THEN [tbl[i] EXCEPT !.gadId = id] ELSE tbl[i]]

UnlinkGad(tbl, aux, id) ==
    SelectSeq(tbl, LAMBDA r : ~(r.aux = aux /\ r.gadId = id))

\* freebird.register(type, obj, cb), up to its return: the object is in the box
RegisterAdd(box, obj) == Append(box, obj)

\* freebird.register's callback with (null, id): the object has its id
RegisterOk(box, slot) == [box EXCEPT ![slot].id = slot]

\* freebird.register's callback with an error: the object is not in the box
RegisterFail(box, slot) == [box EXCEPT ![slot].inBox = FALSE]

\* freebird.unregister's callback without an error: the box no longer holds the
\* object's id (an object that has no id yet is under no id of the box)
UnregisterOk(box, slot) ==
    IF box[slot].id = NoId THEN box ELSE [box EXCEPT ![slot].inBox = FALSE]

\* dev.set('net', { status: s })
SetStatus(box, dev, s) == [box EXCEPT ![dev].status = s]

(***************************************************************************)
(* Handler invocations waiting for a callback                              *)
(***************************************************************************)
Proc(kind, m, dev, gad, obj, pc, sync, tbl, att, n) ==
    [kind |-> kind, nc |-> m.nc, perm |-> m.perm, aux |-> m.aux,
     dev |-> dev, gad |-> gad, obj |-> obj, pc |-> pc, sync |-> sync,
     tbl |-> tbl, att |-> att, n |-> n]

ProcMsg(p) == Msg(p.nc, p.perm, p.aux)

SameDev(m1, m2) == m1.nc = m2.nc /\ m1.perm = m2.perm
SameGad(m1, m2) == m1.nc = m2.nc /\ m1.perm = m2.perm /\ m1.aux = m2.aux

(***************************************************************************)
(* The coalescing queue: handlers.js:75-101                                *)
(***************************************************************************)
\* queueEvent(gadMsgIn), one listener
QueueEvent(q, m) ==
    IF \E i \in 1..Len(q) : SameGad(q[i], m)
    THEN SelectSeq(q, LAMBDA e : ~SameGad(e, m))
    ELSE Append(q, m)

RECURSIVE QueueEventAll(_, _, _)
\* every queueEvent listener registered on NcGadIncoming runs, one after the other
QueueEventAll(q, m, n) ==
    IF n = 0 THEN q ELSE QueueEventAll(QueueEvent(q, m), m, n - 1)

\* the gadget-cook callback's _.remove: handlers.js:277-279
RemoveGadMsg(q, m) == SelectSeq(q, LAMBDA e : ~SameGad(e, m))

(***************************************************************************)
(* handlers.ncGadIncoming, its synchronous part: handlers.js:246-319       *)
(*   W is the part of the state a notification handler works on:           *)
(*   box (devbox), q (_gadEventQueue), procs, out (the calls made so far)  *)
(***************************************************************************)
\* doGadCook with the bound tested before the increment is counted
DoGadCookOffByOne(box, p) ==
    IF box[p.dev].id = NoId
    THEN IF p.sync + 1 >= MaxSync
         THEN [p EXCEPT !.sync = @ + 1, !.pc = "gaveUp"]
         ELSE [p EXCEPT !.sync = @ + 1, !.pc = "wait", !.n = @ + 1]
    ELSE [p EXCEPT !.pc = "cook"]

\* doGadCook(): handlers.js:265-276. The invocation p after one run of it.
DoGadCook(box, p) ==
    IF box[p.dev].id = NoId
    THEN IF p.sync + 1 > MaxSync
         THEN [p EXCEPT !.sync = @ + 1, !.pc = "gaveUp"]
         ELSE [p EXCEPT !.sync = @ + 1, !.pc = "wait", !.n = @ + 1]   \* setTimeout armed
    ELSE [p EXCEPT !.pc = "cook"]                                      \* nc.cookRawGad called

DoGadCookCall(p) ==
    IF p.pc = "wait" THEN <<Call("setTimeout", "doGadCook", "", RetryDelay)>>
    ELSE IF p.pc = "cook" THEN <<Call("cookRawGad", p.perm, "", p.aux)>>
    ELSE <<>>

GadIncomingHandler(W, m) ==
    LET dev == FindDev(W.box, m.nc, m.perm)
        gad == FindGad(gadbox, m.nc, m.perm, m.aux)
    IN IF dev = 0 THEN W       \* device not found, ignore this gad incoming
       ELSE LET box1 == [SetStatus(W.box, dev, "online")
                            EXCEPT ![dev].gadTable = LinkGad(@, m.aux)]
                p == DoGadCook(box1, Proc("gadIn", m, dev, gad, 0, "new", 0, <<>>, <<>>, 0))
            IN [box |-> box1,
                q |-> Append(W.q, m),
                procs |-> BagAdd(W.procs, p),
                out |-> W.out \o DoGadCookCall(p)]

\* freebird.emit(EVT_BTM.NcGadIncoming, m): the handler attached first
\* (handlers.js:688), then every queueEvent listener (handlers.js:89)
EmitGadIncoming(W, m, nl) ==
    LET W1 == GadIncomingHandler(W, m)
    IN [W1 EXCEPT !.q = QueueEventAll(W1.q, m, nl)]

RECURSIVE EmitAll(_, _, _)
EmitAll(W, evts, nl) ==
    IF evts = <<>> THEN W
    ELSE EmitAll(EmitGadIncoming(W, Head(evts), nl), Tail(evts), nl)

\* the sequence q, last element first
RECURSIVE Reverse(_)
Reverse(q) == IF q = <<>> THEN <<>> ELSE Append(Reverse(Tail(q)), Head(q))

\* releasQueueEvent that replays the newest entry first
ReleasQueueEventNewestFirst(W, msg, nl) ==
    LET evt  == SelectSeq(W.q, LAMBDA e : SameDev(e, msg))
        rest == SelectSeq(W.q, LAMBDA e : ~SameDev(e, msg))
    IN EmitAll([W EXCEPT !.q = rest], Reverse(evt), nl)

\* releasQueueEvent(): handlers.js:91-101
ReleasQueueEvent(W, msg, nl) ==
    LET evt  == SelectSeq(W.q, LAMBDA e : SameDev(e, msg))
        rest == SelectSeq(W.q, LAMBDA e : ~SameDev(e, msg))
    IN EmitAll([W EXCEPT !.q = rest], evt, nl)

World(out) == [box |-> devbox, q |-> gadEventQueue, procs |-> procs, out |-> out]

(***************************************************************************)
(* Initial state: freebird.js:66-74                                        *)
(***************************************************************************)
InitState ==
    /\ devbox = <<>>
    /\ gadbox = <<>>
    /\ joinable = FALSE
    /\ gadEventQueue = <<>>
    /\ nListeners = 0
    /\ procs = EmptyBag
    /\ nNotif = 0
    /\ last = [act |-> "init", nc |-> "", perm |-> "", aux |-> 0, found |-> FALSE,
               ok |-> TRUE, join |-> FALSE, n |-> 0, out |-> <<>>]
    /\ fireMode = "normal"                  \* freebird.js:178
    /\ eventQueue = <<>>                    \* freebird.js:71
    /\ tickQ = <<>>
    /\ immQ = <<>>
    /\ delivered = <<>>
    /\ nFired = 0
    /\ mark = [at |-> NoId, buf |-> {}]
    /\ dropped = {}
    /\ lazyAt = NoId

Init == InitState /\ budget = [notif |-> MaxNotif, poll |-> MaxPoll]

\* the netcore permits joining
InitLeave ==
    /\ devbox = <<>> /\ gadbox = <<>> /\ joinable = TRUE /\ gadEventQueue = <<>>
    /\ nListeners = 0 /\ procs = EmptyBag /\ nNotif = 0
    /\ budget = [notif |-> LeaveNotif, poll |-> MaxPoll]
    /\ last = [act |-> "init", nc |-> "", perm |-> "", aux |-> 0, found |-> FALSE,
               ok |-> TRUE, join |-> TRUE, n |-> 0, out |-> <<>>]
    /\ fireMode = "normal" /\ eventQueue = <<>> /\ tickQ = <<>> /\ immQ = <<>>
    /\ delivered = <<>> /\ nFired = 0 /\ mark = [at |-> NoId, buf |-> {}]
    /\ dropped = {} /\ lazyAt = NoId

InitRetry == InitState /\ budget = [notif |-> RetryNotif, poll |-> MaxSync + 1]

\* a notification arrives: one more of the run's budget is used
Arrive ==
    /\ nNotif < budget.notif
    /\ nNotif' = nNotif + 1
    /\ UNCHANGED budget

Quiet == UNCHANGED <<nNotif, budget>>

\* nc.isJoinable() changes with the netcore's permit-join window
PermitJoin ==
    /\ joinable' = ~joinable
    /\ UNCHANGED <<devbox, gadbox, gadEventQueue, nListeners, procs, nNotif, budget, last, fireVars>>

(***************************************************************************)
(* handlers.ncDevIncoming: handlers.js:70-159                              *)
(***************************************************************************)
\* the branch with the lookup of the device left out
DevCookBranchNeverExists(dev, join) ==
    IF join THEN "register" ELSE "drop"

\* the branch with the netcore's joinable state left out
DevCookBranchAlwaysJoin(dev, join) ==
    IF dev # 0 THEN "exists" ELSE "register"

\* the three branches of a successful device cook: handlers.js:118, 134, 154
DevCookBranch(dev, join) ==
    IF dev # 0 THEN "exists" ELSE IF join THEN "register" ELSE "drop"

\* the event without its indication
DevIncomingCallsNoTweet(id) == <<Fire("DEV_INCOMING", id)>>

\* handlers.js:149-150
DevIncomingCalls(id) == <<Fire("DEV_INCOMING", id), Tweet("dev", "devIncoming", id)>>

NcDevIncoming(nc, perm) ==
    /\ Arrive
    /\ nListeners' = nListeners + 1                  \* freebird.on(NcGadIncoming, queueEvent)
    /\ LET dev == FindDev(devbox, nc, perm)
       IN IF ~FindNetcore(nc)
          THEN /\ procs' = procs
               /\ last' = Last("ncDevIncoming", nc, perm, 0, FALSE, FALSE, 0, <<>>)
          ELSE /\ procs' = BagAdd(procs, Proc("devIn", Msg(nc, perm, 0), dev, 0, 0,
                                              "cook", 0, <<>>, <<>>, 0))
               /\ last' = Last("ncDevIncoming", nc, perm, 0, dev # 0, TRUE, 0,
                               <<Call("cookRawDev", perm, "", 0)>>)
    /\ UNCHANGED <<devbox, gadbox, joinable, gadEventQueue, fireVars>>

\* the callback of nc.cookRawDev: handlers.js:109-158
CookRawDevDone(p, ok) ==
    /\ p \in BagToSet(procs) /\ p.kind = "devIn" /\ p.pc = "cook"
    /\ IF ~ok
       THEN /\ procs' = BagDel(procs, p)
            /\ last' = Last("cookRawDevDone", p.nc, p.perm, 0, p.dev # 0, FALSE, 0,
                            <<Tweet("net", "error", 0)>>)
            /\ UNCHANGED <<devbox, nListeners>>
       ELSE IF DevCookBranch(p.dev, joinable) = "exists"
       THEN /\ nListeners' = nListeners - 1
            /\ devbox' = SetStatus(devbox, p.dev, "online")
            /\ procs' = BagDel(procs, p)
            /\ last' = Last("cookRawDevDone", p.nc, p.perm, 0, TRUE, TRUE, 0, <<>>)
       ELSE IF DevCookBranch(p.dev, joinable) = "register"
       THEN /\ devbox' = RegisterAdd(devbox, NewDevice(p.nc, p.perm))
            /\ procs' = BagAdd(BagDel(procs, p),
                               [p EXCEPT !.pc = "reg", !.obj = Len(devbox) + 1])
            /\ last' = Last("cookRawDevDone", p.nc, p.perm, 0, FALSE, TRUE, 0,
                            <<Call("register", "device", p.perm, NoId)>>)
            /\ UNCHANGED nListeners
       ELSE /\ nListeners' = nListeners - 1
            /\ procs' = BagDel(procs, p)
            /\ last' = Last("cookRawDevDone", p.nc, p.perm, 0, FALSE, TRUE, 0, <<>>)
            /\ UNCHANGED devbox
    /\ Quiet
    /\ UNCHANGED <<gadbox, joinable, gadEventQueue, fireVars>>

\* the callback of freebird.register('device', devIn, ...): handlers.js:135-153
RegisterDevDone(p, ok) ==
    /\ p \in BagToSet(procs) /\ p.kind = "devIn" /\ p.pc = "reg"
    /\ nListeners' = nListeners - 1
    /\ IF ~ok
       THEN /\ devbox' = RegisterFail(devbox, p.obj)
            /\ procs' = BagDel(procs, p)
            /\ last' = Last("registerDevDone", p.nc, p.perm, 0, FALSE, FALSE, 0,
                            <<Tweet("net", "error", 0)>>)
            /\ UNCHANGED gadEventQueue
       ELSE LET box1 == SetStatus(RegisterOk(devbox, p.obj), p.obj, "online")
                W0 == [box |-> box1, q |-> gadEventQueue, procs |-> BagDel(procs, p),
                       out |-> DevIncomingCalls(p.obj)]
                W1 == ReleasQueueEvent(W0, ProcMsg(p), nListeners - 1)
            IN /\ devbox' = W1.box
               /\ gadEventQueue' = W1.q
               /\ procs' = W1.procs
               /\ last' = Last("registerDevDone", p.nc, p.perm, 0, FALSE, TRUE,
                               BagCardinality(W1.procs) - BagCardinality(W0.procs), W1.out)
    /\ Quiet
    /\ UNCHANGED <<gadbox, joinable, fireVars>>

(***************************************************************************)
(* handlers.ncGadIncoming: handlers.js:246-319                             *)
(***************************************************************************)
\* a gadget-incoming notification is emitted: every listener runs
NcGadIncoming(nc, perm, aux) ==
    /\ Arrive
    /\ LET m  == Msg(nc, perm, aux)
           W1 == EmitGadIncoming(World(<<>>), m, nListeners)
       IN /\ devbox' = W1.box
          /\ gadEventQueue' = W1.q
          /\ procs' = W1.procs
          /\ last' = Last("ncGadIncoming", nc, perm, aux, FindDev(devbox, nc, perm) # 0,
                          TRUE, 0, W1.out)
    /\ UNCHANGED <<gadbox, joinable, nListeners, fireVars>>

\* the retry timer of doGadCook fires: handlers.js:271-273
GadRetry(p) ==
    /\ p \in BagToSet(procs) /\ p.kind = "gadIn" /\ p.pc = "wait"
    /\ devbox[p.dev].id # NoId \/ p.sync < budget.poll
    /\ LET p1 == DoGadCook(devbox, p)
       IN /\ procs' = IF p1.pc = "gaveUp" THEN BagDel(procs, p)
                      ELSE BagAdd(BagDel(procs, p), p1)
          /\ last' = Last(IF p1.pc = "gaveUp" THEN "gadGiveUp" ELSE "gadRetry",
                          p.nc, p.perm, p.aux, devbox[p.dev].id # NoId, p1.pc # "gaveUp", p1.n,
                          IF p1.pc = "gaveUp" THEN <<>> ELSE DoGadCookCall(p1))
    /\ Quiet
    /\ UNCHANGED <<devbox, gadbox, joinable, gadEventQueue, nListeners, fireVars>>

\* the callback of nc.cookRawGad: handlers.js:276-315
CookRawGadDone(p, ok) ==
    /\ p \in BagToSet(procs) /\ p.kind = "gadIn" /\ p.pc = "cook"
    /\ gadEventQueue' = RemoveGadMsg(gadEventQueue, ProcMsg(p))
    /\ IF ~ok
       THEN /\ procs' = BagDel(procs, p)
            /\ last' = Last("cookRawGadDone", p.nc, p.perm, p.aux, p.gad # 0, FALSE, 0,
                            <<Tweet("net", "error", 0)>>)
            /\ UNCHANGED gadbox
       ELSE IF p.gad # 0
       THEN /\ procs' = BagDel(procs, p)
            /\ last' = Last("cookRawGadDone", p.nc, p.perm, p.aux, TRUE, TRUE, 0, <<>>)
            /\ UNCHANGED gadbox
       ELSE IF joinable
       THEN /\ gadbox' = RegisterAdd(gadbox, NewGadget(p.dev, p.nc, p.perm, p.aux))
            /\ procs' = BagAdd(BagDel(procs, p),
                               [p EXCEPT !.pc = "reg", !.obj = Len(gadbox) + 1])
            /\ last' = Last("cookRawGadDone", p.nc, p.perm, p.aux, FALSE, TRUE, 0,
                            <<Call("register", "gadget", p.perm, NoId)>>)
       ELSE /\ procs' = BagDel(procs, p)
            /\ last' = Last("cookRawGadDone", p.nc, p.perm, p.aux, FALSE, TRUE, 0, <<>>)
            /\ UNCHANGED gadbox
    /\ Quiet
    /\ UNCHANGED <<devbox, joinable, nListeners, fireVars>>

\* the callback of freebird.register('gadget', gadIn, ...): handlers.js:299-313
RegisterGadDone(p, ok) ==
    /\ p \in BagToSet(procs) /\ p.kind = "gadIn" /\ p.pc = "reg"
    /\ procs' = BagDel(procs, p)
    /\ IF ~ok
       THEN /\ gadbox' = RegisterFail(gadbox, p.obj)
            /\ last' = Last("registerGadDone", p.nc, p.perm, p.aux, FALSE, FALSE, 0,
                            <<Fire("warn", 0), Tweet("gad", "error", 0)>>)
            /\ UNCHANGED devbox
       ELSE /\ gadbox' = RegisterOk(gadbox, p.obj)
            /\ devbox' = [devbox EXCEPT ![p.dev].gadTable = ConnectGad(@, p.aux, p.obj)]
            /\ last' = Last("registerGadDone", p.nc, p.perm, p.aux, FALSE, TRUE, 0,
                            <<Fire("GAD_INCOMING", p.obj),
                              Tweet("gad", "gadIncoming", p.obj)>>)
    /\ Quiet
    /\ UNCHANGED <<joinable, gadEventQueue, nListeners, fireVars>>

(***************************************************************************)
(* handlers.ncDevLeaving: handlers.js:161-219                              *)
(***************************************************************************)
\* freebird.remove(ncName, permAddr): the device is flagged as being removed
Remove(m) ==
    /\ FindDev(devbox, m.nc, m.perm) # 0
    /\ ~devbox[FindDev(devbox, m.nc, m.perm)].removing
    /\ devbox' = [devbox EXCEPT ![FindDev(devbox, m.nc, m.perm)].removing = TRUE]
    /\ UNCHANGED <<gadbox, joinable, gadEventQueue, nListeners, procs, nNotif, budget, last, fireVars>>

\* dev.get('gadTable').map(rec => freebird.findById('gadget', rec.gadId)): handlers.js:177-179
GadTbl(tbl) == [i \in 1..Len(tbl) |-> FindGadById(gadbox, tbl[i].gadId)]

\* the cascade that goes for the device without its gadgets
RemoveGadgetDeviceOnly(p) ==
    [p EXCEPT !.pc = "unregDev", !.gad = 0, !.tbl = <<>>, !.att = Append(@, "device")]

RECURSIVE RemoveGadgetStopsAtMissing(_)
\* the cascade that ends at a table entry whose gadget is not in the registry
RemoveGadgetStopsAtMissing(p) ==
    IF p.tbl = <<>>
    THEN [p EXCEPT !.pc = "unregDev", !.gad = 0, !.att = Append(@, "device")]
    ELSE LET gad  == p.tbl[Len(p.tbl)]
             rest == SubSeq(p.tbl, 1, Len(p.tbl) - 1)
         IN IF gad = 0
            THEN [p EXCEPT !.tbl = rest, !.gad = 0, !.pc = "stopped"]
            ELSE [p EXCEPT !.tbl = rest, !.gad = gad, !.pc = "unregGad",
                           !.att = Append(@, "gadget")]

RECURSIVE RemoveGadget(_)
\* removeGadget(), up to the unregister it calls: handlers.js:184-218
RemoveGadget(p) ==
    IF p.tbl = <<>>
    THEN [p EXCEPT !.pc = "unregDev", !.gad = 0, !.att = Append(@, "device")]
    ELSE LET gad  == p.tbl[Len(p.tbl)]                  \* gadTbl.pop()
             rest == SubSeq(p.tbl, 1, Len(p.tbl) - 1)
         IN IF gad = 0
            THEN RemoveGadget([p EXCEPT !.tbl = rest])
            ELSE [p EXCEPT !.tbl = rest, !.gad = gad, !.pc = "unregGad",
                           !.att = Append(@, "gadget")]

UnregisterCall(p) ==
    IF p.pc = "unregDev" THEN <<Call("unregister", "device", p.perm, p.dev)>>
    ELSE <<Call("unregister", "gadget", p.perm, p.gad)>>

\* the flag taken as set for every device
RemovingAlways(box, dev) == TRUE

\* dev._removing: handlers.js:176
Removing(box, dev) == box[dev].removing

NcDevLeaving(m) ==
    /\ Arrive
    /\ LET dev == FindDev(devbox, m.nc, m.perm)
       IN IF dev = 0
          THEN /\ last' = Last("ncDevLeaving", m.nc, m.perm, 0, FALSE, TRUE, 0, <<>>)
               /\ UNCHANGED <<devbox, procs>>
          ELSE /\ devbox' = SetStatus(devbox, dev, "offline")
               /\ IF Removing(devbox, dev)
                  THEN LET tbl == GadTbl(devbox[dev].gadTable)
                           N   == Cardinality({i \in 1..Len(tbl) : tbl[i] # 0})
                           p   == RemoveGadget(Proc("leave", m, dev, 0, 0, "new", 0,
                                                    tbl, <<>>, N))
                       IN /\ procs' = BagAdd(procs, p)
                          /\ last' = Last("ncDevLeaving", m.nc, m.perm, 0, TRUE, TRUE,
                                          Len(tbl), UnregisterCall(p))
                  ELSE /\ procs' = procs
                       /\ last' = Last("ncDevLeaving", m.nc, m.perm, 0, TRUE, TRUE, 0, <<>>)
    /\ UNCHANGED <<gadbox, joinable, gadEventQueue, nListeners, fireVars>>

\* the callback of freebird.unregister('gadget', gad, ...): handlers.js:206-216
UnregisterGadDone(p, ok) ==
    /\ p \in BagToSet(procs) /\ p.kind = "leave" /\ p.pc = "unregGad"
    /\ LET p1 == RemoveGadget(p)
       IN /\ procs' = BagAdd(BagDel(procs, p), p1)
          /\ IF ok
             THEN /\ gadbox' = UnregisterOk(gadbox, p.gad)
                  /\ devbox' = [devbox EXCEPT ![gadbox[p.gad].dev].gadTable =
                                   UnlinkGad(@, gadbox[p.gad].aux, p.gad)]
                  /\ last' = Last("unregisterGadDone", p.nc, p.perm, gadbox[p.gad].aux,
                                  TRUE, TRUE, 0,
                                  <<Fire("GAD_LEAVING", p.gad),
                                    Tweet("gad", "gadLeaving", p.gad)>> \o UnregisterCall(p1))
             ELSE /\ last' = Last("unregisterGadDone", p.nc, p.perm, gadbox[p.gad].aux,
                                  TRUE, FALSE, 0,
                                  <<Fire("warn", 0),
                                    Tweet("gad", "error", p.gad)>> \o UnregisterCall(p1))
                  /\ UNCHANGED <<devbox, gadbox>>
    /\ Quiet
    /\ UNCHANGED <<joinable, gadEventQueue, nListeners, fireVars>>

\* the callback of freebird.unregister('device', dev, ...): handlers.js:189-197
UnregisterDevDone(p, ok) ==
    /\ p \in BagToSet(procs) /\ p.kind = "leave" /\ p.pc = "unregDev"
    /\ procs' = BagDel(procs, p)
    /\ IF ok
       THEN /\ devbox' = UnregisterOk(devbox, p.dev)
            /\ last' = Last("unregisterDevDone", p.nc, p.perm, 0, TRUE, TRUE, p.n,
                            <<Fire("DEV_LEAVING", devbox[p.dev].id),
                              Tweet("dev", "devLeaving", devbox[p.dev].id)>>)
       ELSE /\ last' = Last("unregisterDevDone", p.nc, p.perm, 0, TRUE, FALSE, p.n,
                            <<Fire("warn", 0), Tweet("dev", "error", devbox[p.dev].id)>>)
            /\ UNCHANGED devbox
    /\ Quiet
    /\ UNCHANGED <<gadbox, joinable, gadEventQueue, nListeners, fireVars>>

(***************************************************************************)
(* bannedComponent: handlers.js:486-556                                    *)
(***************************************************************************)
\* getBannedEventName with the two indication types taken for each other
GetBannedEventNameSwapped(type, indType) ==
    IF type = "device"
    THEN (IF indType = "bannedReport" THEN "DEV_BAN_INCOMING" ELSE "DEV_BAN_REPORTING")
    ELSE (IF indType = "bannedReport" THEN "GAD_BAN_INCOMING" ELSE "GAD_BAN_REPORTING")

\* getBannedEventName(type, indType): handlers.js:541-556
GetBannedEventName(type, indType) ==
    IF type = "device"
    THEN (IF indType = "bannedReport" THEN "DEV_BAN_REPORTING" ELSE "DEV_BAN_INCOMING")
    ELSE (IF indType = "bannedReport" THEN "GAD_BAN_REPORTING" ELSE "GAD_BAN_INCOMING")

\* the id read without the test for a missing component
ComponentIdUnguarded(box, component) ==
    IF component # 0 THEN box[component].id ELSE NoId

\* componentId = component ? component.get('id') : 0: handlers.js:502, 517
ComponentId(box, component) ==
    IF component # 0 THEN box[component].id ELSE BannedNoId

BannedAct(type, indType) ==
    IF type = "device"
    THEN (IF indType = "bannedReport" THEN "ncBannedDevReporting" ELSE "ncBannedDevIncoming")
    ELSE (IF indType = "bannedReport" THEN "ncBannedGadReporting" ELSE "ncBannedGadIncoming")

\* ncBannedDevIncoming, ncBannedDevReporting: handlers.js:348-354, 500-514
NcBannedDev(indType, m) ==
    /\ Arrive
    /\ LET component   == FindDev(devbox, m.nc, m.perm)
           componentId == ComponentId(devbox, component)
           evtName     == GetBannedEventName("device", indType)
           out         == <<Fire(evtName, 0), Tweet("dev", evtName, componentId)>>
       IN IF component # 0
          THEN /\ procs' = BagAdd(procs, Proc("banDev", m, component, 0, 0, "ncRemove",
                                              0, <<>>, <<>>, 0))
               /\ last' = Last(BannedAct("device", indType), m.nc, m.perm, 0, TRUE, TRUE, 0,
                               out \o <<Call("ncRemove", m.perm, "", componentId)>>)
          ELSE /\ procs' = procs
               /\ last' = Last(BannedAct("device", indType), m.nc, m.perm, 0, FALSE, TRUE, 0, out)
    /\ UNCHANGED <<devbox, gadbox, joinable, gadEventQueue, nListeners, fireVars>>

\* the callback of nc.remove(permAddr, ...): handlers.js:508-513
NcRemoveDone(p, ok) ==
    /\ p \in BagToSet(procs) /\ p.kind = "banDev" /\ p.pc = "ncRemove"
    /\ procs' = BagDel(procs, p)
    /\ last' = Last("ncRemoveDone", p.nc, p.perm, 0, TRUE, ok, 0,
                    IF ok THEN <<>>
                    ELSE <<Fire("warn", 0), Tweet("dev", "error", devbox[p.dev].id)>>)
    /\ Quiet
    /\ UNCHANGED <<devbox, gadbox, joinable, gadEventQueue, nListeners, fireVars>>

\* ncBannedGadIncoming, ncBannedGadReporting: handlers.js:356-362, 515-535
NcBannedGad(indType, m) ==
    /\ Arrive
    /\ LET component   == FindGad(gadbox, m.nc, m.perm, m.aux)
           componentId == ComponentId(gadbox, component)
           evtName     == GetBannedEventName("gadget", indType)
           out         == <<Fire(evtName, 0), Tweet("gad", evtName, componentId)>>
       IN IF component # 0
          THEN /\ procs' = BagAdd(procs, Proc("banGad", m, gadbox[component].dev, component,
                                              0, "unregGad", 0, <<>>, <<>>, componentId))
               /\ last' = Last(BannedAct("gadget", indType), m.nc, m.perm, m.aux, TRUE, TRUE, 0,
                               out \o <<Call("unregister", "gadget", m.perm, component)>>)
          ELSE /\ procs' = procs
               /\ last' = Last(BannedAct("gadget", indType), m.nc, m.perm, m.aux, FALSE, TRUE, 0, out)
    /\ UNCHANGED <<devbox, gadbox, joinable, gadEventQueue, nListeners, fireVars>>

\* the callback of fb.unregister('gadget', component, ...): handlers.js:525-533
BannedUnregisterDone(p, ok) ==
    /\ p \in BagToSet(procs) /\ p.kind = "banGad" /\ p.pc = "unregGad"
    /\ procs' = BagDel(procs, p)
    /\ IF ok
       THEN /\ gadbox' = UnregisterOk(gadbox, p.gad)
            /\ devbox' = [devbox EXCEPT ![p.dev].gadTable = UnlinkGad(@, p.aux, p.gad)]
            /\ last' = Last("bannedUnregisterDone", p.nc, p.perm, p.aux, TRUE, TRUE, 0,
                            <<Fire("GAD_LEAVING", p.n), Tweet("gad", "gadLeaving", p.n)>>)
       ELSE /\ last' = Last("bannedUnregisterDone", p.nc, p.perm, p.aux, TRUE, FALSE, 0,
                            <<Fire("warn", 0), Tweet("gad", "error", p.n)>>)
            /\ UNCHANGED <<devbox, gadbox>>
    /\ Quiet
    /\ UNCHANGED <<joinable, gadEventQueue, nListeners, fireVars>>

(***************************************************************************)
(* handlers.ncDevNetChanging, ncDevReporting, ncGadReporting:             *)
(* handlers.js:221-244, 321-343                                            *)
(***************************************************************************)
\* msg.data of a net-changing notification: the status it carries, "" for none
NetData == {"", "offline"}

ReportDevMsgs == {Msg("nc", "a", 0)}
ReportGadMsgs == {Msg("nc", "a", 1)}

\* handlers.ncDevNetChanging: handlers.js:221-226
NcDevNetChanging(m, status) ==
    /\ Arrive
    /\ LET dev == FindDev(devbox, m.nc, m.perm)
       IN /\ devbox' = IF dev # 0 /\ status # "" THEN SetStatus(devbox, dev, status)
                       ELSE devbox
          /\ last' = Last("ncDevNetChanging", m.nc, m.perm, 0, dev # 0, TRUE, 0, <<>>)
    /\ UNCHANGED <<gadbox, joinable, gadEventQueue, nListeners, procs, fireVars>>

\* the reporting event fired whether or not the device was found
DevReportingCallsAlways(box, dev) ==
    <<Fire("DEV_REPORTING", IF dev = 0 THEN 0 ELSE box[dev].id)>>

\* handlers.js:233-243
DevReportingCalls(box, dev) ==
    IF dev = 0 THEN <<>> ELSE <<Fire("DEV_REPORTING", box[dev].id)>>

\* handlers.ncDevReporting: handlers.js:228-244
NcDevReporting(m) ==
    /\ Arrive
    /\ LET dev == FindDev(devbox, m.nc, m.perm)
       IN /\ devbox' = IF dev # 0 THEN SetStatus(devbox, dev, "online") ELSE devbox
          /\ last' = Last("ncDevReporting", m.nc, m.perm, 0, dev # 0, TRUE, 0,
                          DevReportingCalls(devbox, dev))
    /\ UNCHANGED <<gadbox, joinable, gadEventQueue, nListeners, procs, fireVars>>

\* handlers.js:333-342
GadReportingCalls(box, dev, gad) ==
    IF dev = 0 \/ gad = 0 THEN <<>>
    ELSE <<Fire("GAD_REPORTING", box[gad].id), Tweet("gad", "attrsReport", box[gad].id)>>

\* handlers.ncGadReporting: handlers.js:321-343
NcGadReporting(m) ==
    /\ Arrive
    /\ LET dev == FindDev(devbox, m.nc, m.perm)
           gad == FindGad(gadbox, m.nc, m.perm, m.aux)
       IN /\ devbox' = IF dev # 0 THEN SetStatus(devbox, dev, "online") ELSE devbox
          /\ last' = Last("ncGadReporting", m.nc, m.perm, m.aux, dev # 0, gad # 0, 0,
                          GadReportingCalls(gadbox, dev, gad))
    /\ UNCHANGED <<gadbox, joinable, gadEventQueue, nListeners, procs, fireVars>>

Next ==
    \/ \E m \in ReportDevMsgs, status \in NetData : NcDevNetChanging(m, status)
    \/ \E m \in ReportDevMsgs : NcDevReporting(m)
    \/ \E m \in ReportGadMsgs : NcGadReporting(m)
    \/ PermitJoin
    \/ \E m \in DevMsgs : NcDevIncoming(m.nc, m.perm)
    \/ \E p \in BagToSet(procs), ok \in BOOLEAN : CookRawDevDone(p, ok)
    \/ \E p \in BagToSet(procs), ok \in BOOLEAN : RegisterDevDone(p, ok)
    \/ \E m \in GadMsgs : NcGadIncoming(m.nc, m.perm, m.aux)
    \/ \E p \in BagToSet(procs) : GadRetry(p)
    \/ \E p \in BagToSet(procs), ok \in BOOLEAN : CookRawGadDone(p, ok)
    \/ \E p \in BagToSet(procs), ok \in BOOLEAN : RegisterGadDone(p, ok)
    \/ \E m \in LeaveMsgs : Remove(m)
    \/ \E m \in LeaveMsgs : NcDevLeaving(m)
    \/ \E p \in BagToSet(procs), ok \in BOOLEAN : UnregisterGadDone(p, ok)
    \/ \E p \in BagToSet(procs), ok \in BOOLEAN : UnregisterDevDone(p, ok)
    \/ \E t \in IndTypes, m \in BanDevMsgs : NcBannedDev(t, m)
    \/ \E p \in BagToSet(procs), ok \in BOOLEAN : NcRemoveDone(p, ok)
    \/ \E t \in IndTypes, m \in BanGadMsgs : NcBannedGad(t, m)
    \/ \E p \in BagToSet(procs), ok \in BOOLEAN : BannedUnregisterDone(p, ok)

Spec == Init /\ [][Next]_vars

\* the device- and gadget-incoming handlers, with every retry of doGadCook
NextRetry ==
    \/ PermitJoin
    \/ \E m \in DevMsgs : NcDevIncoming(m.nc, m.perm)
    \/ \E p \in BagToSet(procs), ok \in BOOLEAN : CookRawDevDone(p, ok)
    \/ \E p \in BagToSet(procs), ok \in BOOLEAN : RegisterDevDone(p, ok)
    \/ \E m \in GadMsgs : NcGadIncoming(m.nc, m.perm, m.aux)
    \/ \E p \in BagToSet(procs) : GadRetry(p)
    \/ \E p \in BagToSet(procs), ok \in BOOLEAN : CookRawGadDone(p, ok)
    \/ \E p \in BagToSet(procs), ok \in BOOLEAN : RegisterGadDone(p, ok)

SpecRetry == InitRetry /\ [][NextRetry]_vars

\* one device that joins, its gadgets, whose cook may fail, and its removal, with every
\* unregister calling back eventually
OneDevMsgs == {Msg("nc", "a", 0)}
OneDevGadMsgs == {Msg("nc", "a", 1), Msg("nc", "a", 2)}

NextLeave ==
    \/ \E m \in OneDevMsgs : NcDevIncoming(m.nc, m.perm)
    \/ \E p \in BagToSet(procs) : CookRawDevDone(p, TRUE)
    \/ \E p \in BagToSet(procs) : RegisterDevDone(p, TRUE)
    \/ \E m \in OneDevGadMsgs : NcGadIncoming(m.nc, m.perm, m.aux)
    \/ \E p \in BagToSet(procs) : GadRetry(p)
    \/ \E p \in BagToSet(procs), ok \in BOOLEAN : CookRawGadDone(p, ok)
    \/ \E p \in BagToSet(procs) : RegisterGadDone(p, TRUE)
    \/ \E m \in OneDevMsgs : Remove(m)
    \/ \E m \in OneDevMsgs : NcDevLeaving(m)
    \/ \E p \in BagToSet(procs), ok \in BOOLEAN : UnregisterGadDone(p, ok)
    \/ \E p \in BagToSet(procs), ok \in BOOLEAN : UnregisterDevDone(p, ok)

SpecLeave ==
    /\ InitLeave /\ [][NextLeave]_vars
    /\ WF_vars(\E p \in BagToSet(procs), ok \in BOOLEAN : UnregisterGadDone(p, ok))
    /\ WF_vars(\E p \in BagToSet(procs), ok \in BOOLEAN : UnregisterDevDone(p, ok))

(***************************************************************************)
(* The event dispatcher: freebird.js:165-235                               *)
(*   D is the dispatcher's state: mode (_fire), evq (_eventQueue), tick    *)
(*   and imm (the scheduler's queues), n (the _fire calls so far).         *)
(*   An event carries its place among the _fire calls (sn), whether it was *)
(*   buffered (buf) and the update it comes from (upd).                    *)
(***************************************************************************)
Evt(name, id, sn, buf, upd) ==
    [name |-> name, id |-> id, sn |-> sn, buf |-> buf, upd |-> upd]

Task(t, e) == [t |-> t, e |-> e]

\* what a scheduled callback that carries no event or indication holds
NoEvt == [name |-> ""]

Disp == [mode |-> fireMode, evq |-> eventQueue, tick |-> tickQ, imm |-> immQ, n |-> nFired]

SetDisp(D) ==
    /\ fireMode' = D.mode
    /\ eventQueue' = D.evq
    /\ tickQ' = D.tick
    /\ immQ' = D.imm
    /\ nFired' = D.n

\* Freebird.prototype._normalFire: freebird.js:165-172
NormalFire(D, name, id, upd) ==
    LET e == Evt(name, id, D.n + 1, FALSE, upd)
    IN IF name = "NcDevIncoming"
       THEN [D EXCEPT !.tick = Append(@, Task("emit", e)), !.n = @ + 1]
       ELSE [D EXCEPT !.imm = Append(@, Task("emit", e)), !.n = @ + 1]

\* _lazyFire that puts the event at the front of the queue
LazyFireFront(D, name, id, upd) ==
    [D EXCEPT !.evq = <<Evt(name, id, D.n + 1, TRUE, upd)>> \o @, !.n = @ + 1]

\* Freebird.prototype._lazyFire: freebird.js:174-176
LazyFire(D, name, id, upd) ==
    [D EXCEPT !.evq = Append(@, Evt(name, id, D.n + 1, TRUE, upd)), !.n = @ + 1]

\* this._fire(evt, data)
FireVia(D, name, id, upd) ==
    IF D.mode = "normal" THEN NormalFire(D, name, id, upd) ELSE LazyFire(D, name, id, upd)

\* _tweet that forwards nothing while the dispatcher buffers
TweetViaNormalOnly(D, subsys, indType, id) ==
    IF D.mode = "lazy" THEN D
    ELSE [D EXCEPT !.imm = Append(@, Task("indicate",
                                          [subsys |-> subsys, type |-> indType, id |-> id]))]

\* Freebird.prototype._tweet: freebird.js:180-197
TweetVia(D, subsys, indType, id) ==
    [D EXCEPT !.imm = Append(@, Task("indicate",
                                     [subsys |-> subsys, type |-> indType, id |-> id]))]

RECURSIVE ApplyCalls(_, _, _)
\* the _fire and _tweet calls of a handler, made one after the other
ApplyCalls(D, calls, upd) ==
    IF calls = <<>> THEN D
    ELSE LET c == Head(calls)
         IN ApplyCalls(IF c.op = "fire" THEN FireVia(D, c.a, c.id, upd)
                       ELSE IF c.op = "tweet" THEN TweetVia(D, c.a, c.b, c.id)
                       ELSE D,
                       Tail(calls), upd)

\* the keepReleasing callbacks that are scheduled
Drains(q) == Cardinality({i \in 1..Len(q) : q[i].t = "keepReleasing"})

Sns(q) == {q[i].sn : i \in 1..Len(q)}

\* a caller passes an event to _fire
FbFire(name) ==
    /\ nFired < MaxFire
    /\ SetDisp(FireVia(Disp, name, 0, 0))
    /\ UNCHANGED <<delivered, mark, dropped, last, lazyAt, syncVars>>

\* Freebird.prototype._changeFireMode, without keepReleasing: freebird.js:207-218
ChangeFireMode(mode) ==
    /\ IF mode = 1
       THEN /\ IF eventQueue # <<>>
               THEN /\ Drains(immQ) < MaxDrain
                    /\ immQ' = Append(immQ, Task("keepReleasing", NoEvt))
                    /\ \/ mark' = mark
                       \/ /\ mark.at = NoId
                          /\ mark' = [at |-> nFired, buf |-> Sns(eventQueue)]
                    /\ UNCHANGED fireMode
               ELSE /\ fireMode' = "normal"
                    /\ UNCHANGED <<immQ, mark>>
       ELSE /\ fireMode' = "lazy"
            /\ UNCHANGED <<immQ, mark>>
    /\ lazyAt' = IF mode = 1 THEN NoId ELSE IF lazyAt = NoId THEN nFired ELSE lazyAt
    /\ UNCHANGED <<eventQueue, tickQ, delivered, nFired, dropped, last, syncVars>>

\* Freebird.prototype._clearEventQueue: freebird.js:233-235
ClearEventQueue ==
    /\ eventQueue # <<>>
    /\ eventQueue' = <<>>
    /\ dropped' = dropped \cup Sns(eventQueue)
    /\ UNCHANGED <<fireMode, tickQ, immQ, delivered, nFired, mark, last, lazyAt, syncVars>>

\* keepReleasing(): freebird.js:220-230; the event it emits is the head of D.evq
\* keepReleasing that emits the oldest entry and leaves it in the queue
KeepReleasingNoShift(D) ==
    IF D.evq # <<>>
    THEN [D EXCEPT !.imm = Append(@, Task("keepReleasing", NoEvt))]
    ELSE [D EXCEPT !.mode = "normal"]

\* keepReleasing that ends without resuming the immediate mode
KeepReleasingNeverResumes(D) ==
    IF D.evq # <<>>
    THEN [D EXCEPT !.evq = Tail(@), !.imm = Append(@, Task("keepReleasing", NoEvt))]
    ELSE D

\* keepReleasing that resumes the immediate mode with its first entry
KeepReleasingEager(D) ==
    IF D.evq # <<>>
    THEN [D EXCEPT !.evq = Tail(@), !.imm = Append(@, Task("keepReleasing", NoEvt)),
                   !.mode = "normal"]
    ELSE [D EXCEPT !.mode = "normal"]

\* keepReleasing(), but for its emit: freebird.js:220-230
KeepReleasing(D) ==
    IF D.evq # <<>>
    THEN [D EXCEPT !.evq = Tail(@), !.imm = Append(@, Task("keepReleasing", NoEvt))]
    ELSE [D EXCEPT !.mode = "normal"]

\* a callback scheduled with process.nextTick runs: freebird.js:169
RunTick ==
    /\ tickQ # <<>>
    /\ tickQ' = Tail(tickQ)
    /\ delivered' = Append(delivered, Head(tickQ).e)
    /\ UNCHANGED <<fireMode, eventQueue, immQ, nFired, mark, dropped, last, lazyAt, syncVars>>

\* a callback scheduled with setImmediate runs, once no nextTick callback is left:
\* freebird.js:171 (emit), 191-196 (indicate), 212 and 226 (keepReleasing)
RunImmediate(err) ==
    /\ tickQ = <<>> /\ immQ # <<>>
    /\ LET task == Head(immQ)
           D0   == [Disp EXCEPT !.imm = Tail(immQ)]
       IN IF task.t = "emit"
          THEN /\ ~err
               /\ SetDisp(D0)
               /\ delivered' = Append(delivered, task.e)
          ELSE IF task.t = "keepReleasing"
          THEN /\ ~err
               /\ SetDisp(KeepReleasing(D0))
               /\ delivered' = IF eventQueue # <<>>
                               THEN Append(delivered, Head(eventQueue)) ELSE delivered
          ELSE /\ err => nFired < MaxFire
               /\ SetDisp(IF err THEN FireVia(D0, "warn", 0, 0) ELSE D0)
               /\ UNCHANGED delivered
    /\ UNCHANGED <<mark, dropped, last, lazyAt, syncVars>>

(***************************************************************************)
(* updateComponent: handlers.js:558-637                                    *)
(***************************************************************************)
\* getUpdateEventName(type, namespace): handlers.js:617-637
GetUpdateEventName(type, namespace) ==
    IF type = "dev"
    THEN (IF namespace = "net" THEN "DEV_NET_CHANGED"
          ELSE IF namespace = "props" THEN "DEV_PROPS_CHANGED"
          ELSE IF namespace = "attrs" THEN "DEV_ATTRS_CHANGED" ELSE "undefined")
    ELSE IF type = "gad"
    THEN (IF namespace = "panel" THEN "GAD_PANEL_CHANGED"
          ELSE IF namespace = "props" THEN "GAD_PROPS_CHANGED"
          ELSE IF namespace = "attrs" THEN "GAD_ATTRS_CHANGED" ELSE "undefined")
    ELSE "undefined"

\* the derived event put before the namespace event
UpdateCallsStatusFirst(type, namespace, id, status, ok) ==
    IF ~ok THEN <<Fire("warn", 0), Tweet(type, "error", id)>>
    ELSE (IF GetUpdateEventName(type, namespace) = "DEV_NET_CHANGED" /\ status
          THEN <<Fire("DEV_STATUS_CHANGED", id), Tweet("dev", "statusChanged", id)>>
          ELSE <<>>)
         \o <<Fire(GetUpdateEventName(type, namespace), id),
              Tweet(type, namespace \o "Changed", id)>>

\* the failure reported and the change announced all the same
UpdateCallsAnnounceAlways(type, namespace, id, status, ok) ==
    (IF ~ok THEN <<Fire("warn", 0), Tweet(type, "error", id)>> ELSE <<>>)
    \o <<Fire(GetUpdateEventName(type, namespace), id),
          Tweet(type, namespace \o "Changed", id)>>
    \o (IF GetUpdateEventName(type, namespace) = "DEV_NET_CHANGED" /\ status
        THEN <<Fire("DEV_STATUS_CHANGED", id), Tweet("dev", "statusChanged", id)>>
        ELSE <<>>)

\* the callback of box.modify: handlers.js:567-580. status: delta.status is set
UpdateCalls(type, namespace, id, status, ok) ==
    IF ~ok THEN <<Fire("warn", 0), Tweet(type, "error", id)>>
    ELSE <<Fire(GetUpdateEventName(type, namespace), id),
           Tweet(type, namespace \o "Changed", id)>>
         \o (IF GetUpdateEventName(type, namespace) = "DEV_NET_CHANGED" /\ status
             THEN <<Fire("DEV_STATUS_CHANGED", id), Tweet("dev", "statusChanged", id)>>
             ELSE <<>>)

UpdateKinds == {<<"dev", "net">>, <<"dev", "attrs">>}

UpdateComponent(type, namespace, id, status, ok) ==
    /\ nFired + 2 <= MaxFire
    /\ LET calls == UpdateCalls(type, namespace, id, status, ok)
       IN /\ SetDisp(ApplyCalls(Disp, calls, nFired + 1))
          /\ last' = Last("updateComponent", type, namespace, id, status, ok,
                           nFired + 1, calls)
    /\ UNCHANGED <<delivered, mark, dropped, lazyAt, syncVars>>

UpdateIds == {1, 2}

FireNames == {"NcDevIncoming", "GAD_REPORTING"}

NextFire ==
    \/ \E name \in FireNames : FbFire(name)
    \/ \E mode \in {0, 1} : ChangeFireMode(mode)
    \/ ClearEventQueue
    \/ RunTick
    \/ \E err \in BOOLEAN : RunImmediate(err)
    \/ \E k \in UpdateKinds, status \in BOOLEAN, ok \in BOOLEAN :
           \E id \in UpdateIds : UpdateComponent(k[1], k[2], id, status, ok)

SpecFire == Init /\ [][NextFire]_vars

(***************************************************************************)
(* The dispatcher alone, with the scheduler of the event loop: a callback  *)
(* scheduled with process.nextTick or setImmediate is run eventually       *)
(***************************************************************************)
NextDrain ==
    \/ \E name \in FireNames : FbFire(name)
    \/ \E mode \in {0, 1} : ChangeFireMode(mode)
    \/ ClearEventQueue
    \/ RunTick
    \/ RunImmediate(FALSE)

SpecDrain ==
    Init /\ [][NextDrain]_vars /\ WF_vars(RunTick) /\ WF_vars(RunImmediate(FALSE))

(***************************************************************************)
(* Properties                                                              *)
(***************************************************************************)
\* a handler or a callback ran in this step, and last' describes it
HandlerStep == procs' # procs \/ nNotif' # nNotif

CountCalls(out, op, a, b) ==
    Cardinality({i \in 1..Len(out) : out[i].op = op /\ out[i].a = a /\ out[i].b = b})

CountOp(out, op) == Cardinality({i \in 1..Len(out) : out[i].op = op})

\* the devices that are registered: in the box, with their id
NumRegistered(box) == Cardinality({i \in 1..Len(box) : box[i].inBox /\ box[i].id # NoId})

\* who is in a box, and under which id
Members(box) == [i \in 1..Len(box) |-> <<box[i].inBox, box[i].id>>]

ProcSet == BagToSet(procs)

C2_NotJoinableNoEffect ==
    [][/\ (HandlerStep /\ last'.act = "cookRawDevDone" /\ last'.ok
                       /\ ~last'.found /\ ~last'.join)
           => /\ devbox' = devbox /\ gadbox' = gadbox
              /\ last'.out = <<>>
       /\ (HandlerStep /\ last'.act = "ncDevIncoming" /\ ~last'.found)
           => /\ devbox' = devbox /\ gadbox' = gadbox
              /\ CountOp(last'.out, "fire") = 0 /\ CountOp(last'.out, "tweet") = 0]_vars

C2_Witness ==
    /\ last.act = "cookRawDevDone" /\ last.ok /\ ~last.found /\ ~last.join
    /\ devbox # <<>>

\* C3, as stated: _gadEventQueue never holds two entries for the same
\* (ncName, permAddr, auxId) key.
C3_OneEntryPerKey ==
    \A i, j \in 1..Len(gadEventQueue) :
        i # j => ~SameGad(gadEventQueue[i], gadEventQueue[j])

\* C4, as stated: no two register calls for the same (ncName, permAddr) key are
\* waiting for their callbacks at once.
C4_OneRegistrationPerKey ==
    \A p \in ProcSet : p.pc = "reg" =>
        /\ CopiesIn(p, procs) = 1
        /\ \A r \in ProcSet : (r.pc = "reg" /\ SameDev(ProcMsg(r), ProcMsg(p))) => r = p

\* C5, as stated (its first step): a gadget-incoming notification that arrives
\* while a device-incoming notification for its device, not yet in the registry,
\* is being cooked is an entry of _gadEventQueue once the listeners have run.
C5_QueuedWhileCooking ==
    (/\ last.act = "ncGadIncoming" /\ ~last.found
     /\ \E p \in ProcSet : p.kind = "devIn" /\ p.pc = "cook" /\ p.dev = 0
                           /\ p.nc = last.nc /\ p.perm = last.perm)
    => \E i \in 1..Len(gadEventQueue) :
           gadEventQueue[i] = Msg(last.nc, last.perm, last.aux)

C10_BannedUnknownDevice ==
    [][(HandlerStep /\ last'.act = "ncBannedDevIncoming" /\ ~last'.found)
        => /\ last'.out = <<Fire("DEV_BAN_INCOMING", 0),
                            Tweet("dev", "DEV_BAN_INCOMING", 0)>>
           /\ devbox' = devbox /\ gadbox' = gadbox /\ procs' = procs]_vars

C10_Witness ==
    /\ last.act = "ncBannedDevIncoming" /\ ~last.found
    /\ CountCalls(last.out, "tweet", "dev", "DEV_BAN_INCOMING") = 1

\* the places of delivered where the event of the sn-th _fire call stands
PlacesOf(sn) == {i \in 1..Len(delivered) : delivered[i].sn = sn}

\* the buffered events of the marked switch are delivered in the order of their _fire
\* calls, and those of B before any event passed to _fire after the switch
DrainedFirst(B) ==
    /\ \A i \in 1..Len(delivered) :
           delivered[i].sn > mark.at =>
               \A b \in B : \E j \in 1..(i - 1) : delivered[j].sn = b
    /\ \A i, j \in 1..Len(delivered) :
           (i < j /\ delivered[i].sn \in mark.buf /\ delivered[j].sn \in mark.buf)
               => delivered[i].sn < delivered[j].sn

\* C8 as stated: after _changeFireMode(1), every event that was in the buffer at the call
\* is delivered, in the order of the _fire calls, before any event passed to _fire after
\* the call is delivered.
C8_Original == mark.at # NoId => DrainedFirst(mark.buf)

\* C8 amended: after _changeFireMode(1), every event that was in the buffer at the call and
\* that _clearEventQueue has not discarded is delivered, in the order of the _fire calls,
\* before any event passed to _fire after the call is delivered.
C8_DrainBeforeLater == mark.at # NoId => DrainedFirst(mark.buf \ dropped)

\* two buffered events were drained, none discarded, and a later event came after them
C8_Witness ==
    /\ mark.at # NoId
    /\ Cardinality(mark.buf) >= 2
    /\ mark.buf \cap dropped = {}
    /\ \A b \in mark.buf : PlacesOf(b) # {}
    /\ \E i \in 1..Len(delivered) : delivered[i].sn > mark.at

FiresOf(calls) == SelectSeq(calls, LAMBDA c : c.op = "fire")

\* C9: a successful update of a device's net namespace whose delta has a status passes
\* DEV_NET_CHANGED and then DEV_STATUS_CHANGED to _fire with the id of the device, in
\* the immediate and in the buffered mode alike, and no DEV_STATUS_CHANGED is delivered
\* to the subscribers unless the DEV_NET_CHANGED of the same update, with the same id,
\* was delivered before it.
C9_NetThenStatus ==
    /\ (last.act = "updateComponent" /\ last.ok /\ last.found
        /\ last.nc = "dev" /\ last.perm = "net")
           => FiresOf(last.out) = <<Fire("DEV_NET_CHANGED", last.aux),
                                    Fire("DEV_STATUS_CHANGED", last.aux)>>
    /\ \A i \in 1..Len(delivered) :
           delivered[i].name = "DEV_STATUS_CHANGED" =>
               \E j \in 1..(i - 1) :
                   /\ delivered[j].name = "DEV_NET_CHANGED"
                   /\ delivered[j].upd = delivered[i].upd
                   /\ delivered[j].id = delivered[i].id
                   /\ delivered[j].buf = delivered[i].buf

\* both events of one update were delivered after having been buffered
C9_Witness ==
    \E i, j \in 1..Len(delivered) :
        /\ i < j
        /\ delivered[i].name = "DEV_NET_CHANGED" /\ delivered[j].name = "DEV_STATUS_CHANGED"
        /\ delivered[i].upd = delivered[j].upd /\ delivered[i].id = 2
        /\ delivered[i].buf /\ delivered[j].buf
        /\ last.act = "updateComponent" /\ last.found /\ last.ok

\* the banned event and its indication for an entity with id, as the handler named act
\* must produce them
BannedCalls(act, id) ==
    IF act = "ncBannedDevIncoming"
    THEN <<Fire("DEV_BAN_INCOMING", 0), Tweet("dev", "DEV_BAN_INCOMING", id)>>
    ELSE IF act = "ncBannedDevReporting"
    THEN <<Fire("DEV_BAN_REPORTING", 0), Tweet("dev", "DEV_BAN_REPORTING", id)>>
    ELSE IF act = "ncBannedGadIncoming"
    THEN <<Fire("GAD_BAN_INCOMING", 0), Tweet("gad", "GAD_BAN_INCOMING", id)>>
    ELSE <<Fire("GAD_BAN_REPORTING", 0), Tweet("gad", "GAD_BAN_REPORTING", id)>>

\* C11: a banned notification (incoming or reporting) for a registered entity fires the
\* banned event and tweets it with the entity's id. For a device it then calls
\* nc.remove(permAddr) once and neither the handler nor the callback of nc.remove
\* unregisters anything. For a gadget it then calls unregister for the gadget once, and
\* the callback of a successful unregister fires GAD_LEAVING and tweets gad/gadLeaving
\* with the gadget's id and calls no further unregister.
C11_BannedRegistered ==
    [][/\ (/\ HandlerStep
           /\ last'.act \in {"ncBannedDevIncoming", "ncBannedDevReporting"}
           /\ last'.found
           /\ devbox[FindDev(devbox, last'.nc, last'.perm)].id # NoId)
          => LET id == devbox[FindDev(devbox, last'.nc, last'.perm)].id
             IN /\ last'.out = BannedCalls(last'.act, id)
                                  \o <<Call("ncRemove", last'.perm, "", id)>>
                /\ devbox' = devbox /\ gadbox' = gadbox
       /\ (HandlerStep /\ last'.act = "ncRemoveDone")
          => /\ CountOp(last'.out, "unregister") = 0
             /\ devbox' = devbox /\ gadbox' = gadbox
       /\ (/\ HandlerStep
           /\ last'.act \in {"ncBannedGadIncoming", "ncBannedGadReporting"}
           /\ last'.found
           /\ gadbox[FindGad(gadbox, last'.nc, last'.perm, last'.aux)].id # NoId)
          => LET id == gadbox[FindGad(gadbox, last'.nc, last'.perm, last'.aux)].id
             IN /\ last'.out = BannedCalls(last'.act, id)
                                  \o <<Call("unregister", "gadget", last'.perm, id)>>
                /\ devbox' = devbox /\ gadbox' = gadbox
       /\ (HandlerStep /\ last'.act = "bannedUnregisterDone" /\ last'.ok)
          => \E p \in ProcSet :
                 /\ p.kind = "banGad" /\ procs' = BagDel(procs, p)
                 /\ p.n # NoId =>
                        last'.out = <<Fire("GAD_LEAVING", p.n),
                                      Tweet("gad", "gadLeaving", p.n)>>
                 /\ CountOp(last'.out, "unregister") = 0]_vars

\* a registered gadget was banned and its unregister succeeded
C11_Witness ==
    /\ last.act = "bannedUnregisterDone" /\ last.ok
    /\ last.out = <<Fire("GAD_LEAVING", 1), Tweet("gad", "gadLeaving", 1)>>
    /\ Len(gadbox) >= 1 /\ ~gadbox[1].inBox

\* C12, as stated: a device-incoming or gadget-incoming notification delivered twice
\* leaves what one delivery leaves, so the registry never holds two registered devices
\* for one (ncName, permAddr) nor two registered gadgets for one (ncName, permAddr, auxId).
C12_DuplicateDelivery ==
    /\ \A i, j \in 1..Len(devbox) :
           (i # j /\ devbox[i].inBox /\ devbox[j].inBox
                  /\ devbox[i].id # NoId /\ devbox[j].id # NoId)
               => ~(devbox[i].nc = devbox[j].nc /\ devbox[i].perm = devbox[j].perm)
    /\ \A i, j \in 1..Len(gadbox) :
           (i # j /\ gadbox[i].inBox /\ gadbox[j].inBox
                  /\ gadbox[i].id # NoId /\ gadbox[j].id # NoId)
               => ~(gadbox[i].nc = gadbox[j].nc /\ gadbox[i].perm = gadbox[j].perm
                    /\ gadbox[i].aux = gadbox[j].aux)

\* C13, as stated: when the cook of a device-incoming notification fails, its callback
\* passes an error event to _fire, for the local subscribers, and changes no registry.
C13_DevCookFailure ==
    [][(HandlerStep /\ last'.act = "cookRawDevDone" /\ ~last'.ok)
        => /\ CountOp(last'.out, "fire") >= 1
           /\ devbox' = devbox /\ gadbox' = gadbox]_vars

\* C14, as stated: when the cook of a gadget-incoming notification fails, its callback
\* fires a warn event and tweets an error indication, and changes neither registry.
C14_GadCookFailure ==
    [][(HandlerStep /\ last'.act = "cookRawGadDone" /\ ~last'.ok)
        => /\ CountCalls(last'.out, "fire", "warn", "") = 1
           /\ CountOp(last'.out, "tweet") = 1
           /\ devbox' = devbox /\ gadbox' = gadbox]_vars

\* C15: a device-leaving notification for a device of the registry whose _removing flag
\* is not set calls no unregister, fires and tweets nothing, starts no cascade, and
\* changes nothing but the status of the device, which it sets to offline.
C15_LeavingNotRemoving ==
    [][(/\ HandlerStep /\ last'.act = "ncDevLeaving" /\ last'.found
        /\ ~devbox[FindDev(devbox, last'.nc, last'.perm)].removing)
        => /\ last'.out = <<>>
           /\ procs' = procs
           /\ gadbox' = gadbox
           /\ devbox' = [devbox EXCEPT
                            ![FindDev(devbox, last'.nc, last'.perm)].status = "offline"]]_vars

\* a registered device that is not being removed left: it is offline and still registered
C15_Witness ==
    /\ last.act = "ncDevLeaving" /\ last.found /\ last.out = <<>>
    /\ LET dev == FindDev(devbox, last.nc, last.perm)
       IN /\ dev # 0
          /\ devbox[dev].id # NoId /\ ~devbox[dev].removing
          /\ devbox[dev].status = "offline"
          /\ devbox[dev].gadTable # <<>>

\* C16: a device-leaving, device-net-changing, device-reporting, gadget-incoming or
\* gadget-reporting notification whose (ncName, permAddr) names no device of the registry
\* changes neither registry, starts no callback or netcore command, and fires and tweets
\* nothing.
C16_UnknownDeviceDropped ==
    [][(/\ HandlerStep
        /\ last'.act \in {"ncDevLeaving", "ncDevNetChanging", "ncDevReporting",
                          "ncGadIncoming", "ncGadReporting"}
        /\ FindDev(devbox, last'.nc, last'.perm) = 0)
        => /\ ~last'.found
           /\ last'.out = <<>>
           /\ devbox' = devbox /\ gadbox' = gadbox
           /\ procs' = procs]_vars

\* a report arrived for a device the registry does not hold, next to one it holds
C16_Witness ==
    /\ last.act = "ncDevReporting" /\ ~last.found /\ last.out = <<>>
    /\ FindDev(devbox, last.nc, last.perm) = 0
    /\ NumRegistered(devbox) >= 1

\* C17: the cook callback of a device-incoming notification that found its device in the
\* registry when it arrived, the cook having succeeded, fires no DEV_INCOMING, calls no
\* register, leaves the registered devices as they are and sets the status of the device
\* to online.
C17_Reannouncement ==
    [][\A p \in ProcSet :
           (/\ HandlerStep /\ last'.act = "cookRawDevDone" /\ last'.ok
            /\ p.kind = "devIn" /\ p.pc = "cook" /\ p.dev # 0
            /\ CopiesIn(p, procs') < CopiesIn(p, procs))
           => /\ last'.found
              /\ last'.out = <<>>
              /\ NumRegistered(devbox') = NumRegistered(devbox)
              /\ Members(devbox') = Members(devbox)
              /\ gadbox' = gadbox
              /\ procs' = BagDel(procs, p)
              /\ devbox' = [devbox EXCEPT ![p.dev].status = "online"]]_vars

\* a registered device that had gone offline announced itself again while joining was
\* permitted
C17_Witness ==
    /\ last.act = "cookRawDevDone" /\ last.ok /\ last.found /\ last.join
    /\ NumRegistered(devbox) = 1 /\ Len(devbox) = 1
    /\ devbox[1].status = "online"
    /\ nNotif = 3

\* C18: once _changeFireMode(0) has asked for the buffered mode, and until a later
\* _changeFireMode(1), every event passed to _fire is in the delivery queue and none of them has
\* been delivered to the subscribers, even when the switch was made during a drain.
C18_BufferedUntilReleased ==
    lazyAt # NoId =>
        /\ fireMode = "lazy"
        /\ \A i \in 1..Len(delivered) : delivered[i].sn <= lazyAt

\* the indication records waiting for the forwarder, in the order of their _tweet calls
IndTasks(q) == SelectSeq(q, LAMBDA t : t.t = "indicate")

TweetsOf(calls) == SelectSeq(calls, LAMBDA c : c.op = "tweet")

\* the records the _tweet calls of a handler build
IndsOf(calls) ==
    [i \in 1..Len(TweetsOf(calls)) |->
        Task("indicate", [subsys |-> TweetsOf(calls)[i].a, type |-> TweetsOf(calls)[i].b,
                          id |-> TweetsOf(calls)[i].id])]

\* the indication at the head of the setImmediate queue is handed to the forwarder
ForwardStep ==
    /\ tickQ = <<>> /\ immQ # <<>> /\ Head(immQ).t = "indicate"
    /\ Len(IndTasks(immQ')) < Len(IndTasks(immQ))

\* two schedules of setImmediate hold the same callbacks
SameTasks(q1, q2) ==
    /\ Len(q1) = Len(q2)
    /\ \A i \in 1..Len(q1) :
           /\ q1[i].t = q2[i].t
           /\ q1[i].t # "keepReleasing" => q1[i].e = q2[i].e

\* C19: in the immediate and in the buffered mode alike, every _tweet call of an update
\* schedules exactly one indication record, a record leaves the schedule only by being handed
\* to the forwarder, one at a time and without anything being delivered, and a failure of the
\* forwarder passes one 'warn' event to _fire, which the current mode emits or buffers.
C19_IndicationPerTweet ==
    [][/\ (last' # last /\ last'.act = "updateComponent")
           => IndTasks(immQ') = IndTasks(immQ) \o IndsOf(last'.out)
       /\ ~(last' # last /\ last'.act = "updateComponent")
           => \/ IndTasks(immQ') = IndTasks(immQ)
              \/ ForwardStep
       /\ ForwardStep
           => /\ IndTasks(immQ') = Tail(IndTasks(immQ))
              /\ delivered' = delivered /\ fireMode' = fireMode /\ tickQ' = tickQ
              /\ \/ /\ nFired' = nFired
                    /\ SameTasks(immQ', Tail(immQ)) /\ eventQueue' = eventQueue
                 \/ /\ nFired' = nFired + 1 /\ fireMode = "normal"
                    /\ SameTasks(immQ', Append(Tail(immQ),
                                  Task("emit", Evt("warn", 0, nFired + 1, FALSE, 0))))
                    /\ eventQueue' = eventQueue
                 \/ /\ nFired' = nFired + 1 /\ fireMode = "lazy"
                    /\ SameTasks(immQ', Tail(immQ))
                    /\ eventQueue' = Append(eventQueue,
                                            Evt("warn", 0, nFired + 1, TRUE, 0))]_vars

\* the forwarder has been handed both indications of an update made while the dispatcher
\* buffered and has failed on one: the events of the update and then the 'warn' of the
\* failure are in the queue, and no indication is left
C19_Witness ==
    /\ last.act = "updateComponent" /\ last.ok /\ Len(TweetsOf(last.out)) = 2
    /\ fireMode = "lazy" /\ IndTasks(immQ) = <<>>
    /\ Len(eventQueue) = 3
    /\ eventQueue[1].upd = 1 /\ eventQueue[2].upd = 1
    /\ eventQueue[3].name = "warn" /\ eventQueue[3].upd = 0

\* C20: a gadget-incoming notification that arrives while the cook of a device-incoming
\* notification for the same (ncName, permAddr) is in flight is an entry of _gadEventQueue
\* once the listeners have run, and the arrival starts no doGadCook for it: no cookRawGad
\* call is made and no retry timer is set.
C20_DivertedWhileCooking ==
    [][(/\ HandlerStep /\ last'.act = "ncGadIncoming"
        /\ \E p \in ProcSet : p.kind = "devIn" /\ p.pc = "cook"
                              /\ p.nc = last'.nc /\ p.perm = last'.perm)
       => /\ \E i \in 1..Len(gadEventQueue') :
                 gadEventQueue'[i] = Msg(last'.nc, last'.perm, last'.aux)
          /\ last'.out = <<>>
          /\ procs' = procs]_vars

\* the entries of the coalescing queue for the device of msg, and the other ones
QueuedFor(q, msg) == SelectSeq(q, LAMBDA e : SameDev(e, msg))
QueuedForOthers(q, msg) == SelectSeq(q, LAMBDA e : ~SameDev(e, msg))

\* C21: when the register call of a new device succeeds, every entry of _gadEventQueue for
\* the device's (ncName, permAddr) is taken out and emitted again exactly once, in the order
\* of the queue: after DEV_INCOMING and its indication the callback starts one doGadCook per
\* entry, in that order; what the queue then holds for the device are notifications being
\* processed, and the entries for other devices are the same as before, in the same order.
C21_ReplayInOrder ==
    [][\A p \in ProcSet :
          (/\ HandlerStep /\ last'.act = "registerDevDone" /\ last'.ok
           /\ p.kind = "devIn" /\ p.pc = "reg"
           /\ CopiesIn(p, procs') < CopiesIn(p, procs))
          => LET msg == ProcMsg(p)
                 evt == QueuedFor(gadEventQueue, msg)
                 out == last'.out
             IN /\ Len(out) = 2 + Len(evt)
                /\ last'.n = Len(evt)
                /\ \A i \in 1..Len(evt) :
                      \/ out[2 + i] = Call("cookRawGad", evt[i].perm, "", evt[i].aux)
                      \/ out[2 + i] = Call("setTimeout", "doGadCook", "", RetryDelay)
                /\ \A i \in 1..Len(evt) :
                      \E r \in BagToSet(procs') :
                          /\ r.kind = "gadIn" /\ ProcMsg(r) = evt[i]
                          /\ CopiesIn(r, procs') > CopiesIn(r, procs)
                /\ QueuedForOthers(gadEventQueue', msg) = QueuedForOthers(gadEventQueue, msg)
                /\ \A i \in 1..Len(gadEventQueue') :
                      SameDev(gadEventQueue'[i], msg) =>
                          \E r \in BagToSet(procs') :
                              r.kind = "gadIn" /\ ProcMsg(r) = gadEventQueue'[i]]_vars

\* a device was registered with two notifications of its gadgets in the queue, and both
\* were emitted again, the older one first
C21_Witness ==
    /\ last.act = "registerDevDone" /\ last.ok /\ last.n = 2
    /\ Len(last.out) = 4
    /\ last.out[3].op = "cookRawGad" /\ last.out[4].op = "cookRawGad"
    /\ last.out[3].id # last.out[4].id

\* the unregister calls of device-leaving cascades for the device in slot d that were
\* called and not yet called back: every cascade waiting has made exactly one
Outstanding(d) ==
    LET S == {p \in ProcSet : p.kind = "leave" /\ p.dev = d}
    IN BagCardinality([p \in S |-> CopiesIn(p, procs)])

\* C22: for any device, at most one unregister call issued by a device-leaving cascade is
\* outstanding at any time, also when several device-leaving notifications for the same
\* flagged device are delivered.
C22_OneOutstanding ==
    \A d \in 1..Len(devbox) : Outstanding(d) <= 1

\* the events passed to _fire that are delivered, buffered or scheduled for emission
EmitsOf(q) == {q[i].e : i \in {j \in 1..Len(q) : q[j].t = "emit"}}
AllEvts ==
    {delivered[i] : i \in 1..Len(delivered)} \cup {eventQueue[i] : i \in 1..Len(eventQueue)}
        \cup EmitsOf(tickQ) \cup EmitsOf(immQ)

\* C23: a call of updateComponent has one of two outcomes. When the registry modify
\* succeeds it passes the changed event of the namespace to _fire and the
\* '<namespace>Changed' indication for the entity's id to _tweet, and neither a 'warn' event
\* nor an 'error' indication; when it fails its calls are exactly _fire('warn') and
\* _tweet(type, 'error', id). No update ever has both a 'warn' and a changed event among
\* the events delivered, buffered or scheduled.
C23_UpdateOutcome ==
    /\ (last.act = "updateComponent" /\ last.ok)
           => /\ CountCalls(last.out, "fire", GetUpdateEventName(last.nc, last.perm), "") = 1
              /\ CountCalls(last.out, "tweet", last.nc, last.perm \o "Changed") = 1
              /\ \A i \in 1..Len(last.out) :
                     /\ last.out[i].id = last.aux
                     /\ last.out[i].a # "warn" /\ last.out[i].b # "error"
    /\ (last.act = "updateComponent" /\ ~last.ok)
           => last.out = <<Fire("warn", 0), Tweet(last.nc, "error", last.aux)>>
    /\ \A e1, e2 \in AllEvts :
           (e1.upd # 0 /\ e1.upd = e2.upd /\ e1.name = "warn") => e2 = e1

\* an update of a device's attrs failed while the dispatcher buffered, after an update
\* that succeeded: the queue holds the changed event of the first and the 'warn' of the second
C23_Witness ==
    /\ last.act = "updateComponent" /\ ~last.ok /\ last.perm = "attrs"
    /\ Len(eventQueue) = 2
    /\ eventQueue[1].name = "DEV_ATTRS_CHANGED" /\ eventQueue[1].upd = 1
    /\ eventQueue[2].name = "warn" /\ eventQueue[2].upd = last.n
    /\ Len(IndTasks(immQ)) = 2

\* the keepReleasing callback at the head of the setImmediate queue runs
DrainStep ==
    /\ tickQ = <<>> /\ immQ # <<>> /\ Head(immQ).t = "keepReleasing"
    /\ Len(immQ') < Len(immQ) \/ delivered' # delivered

\* C24: a run of keepReleasing that finds the delivery queue non-empty delivers its oldest
\* entry and no other, schedules one more run and leaves _fire buffered; a run that finds it
\* empty delivers nothing and makes _fire immediate. _fire goes from buffered to immediate only
\* when the queue is empty, and an event passed to _fire while it is buffered, during a drain
\* too, is put behind the entries of the queue and is not delivered by that call.
C24_OneEntryPerTick ==
    [][/\ DrainStep
          => IF eventQueue # <<>>
             THEN /\ delivered' = Append(delivered, Head(eventQueue))
                  /\ eventQueue' = Tail(eventQueue)
                  /\ fireMode' = fireMode
                  /\ Drains(immQ') = Drains(immQ)
                  /\ Len(immQ') = Len(immQ)
             ELSE /\ delivered' = delivered
                  /\ eventQueue' = eventQueue
                  /\ fireMode' = "normal"
                  /\ Drains(immQ') = Drains(immQ) - 1
       /\ (fireMode = "lazy" /\ fireMode' = "normal") => eventQueue = <<>>
       /\ (fireMode = "lazy" /\ nFired' > nFired)
          => /\ delivered' = delivered
             /\ Len(eventQueue') = Len(eventQueue) + (nFired' - nFired)
             /\ SubSeq(eventQueue', 1, Len(eventQueue)) = eventQueue
             /\ \A i \in (Len(eventQueue) + 1)..Len(eventQueue') :
                    eventQueue'[i].sn > nFired /\ eventQueue'[i].buf]_vars

\* a drain is under way: it has delivered the oldest of two buffered events, and an event
\* passed to _fire since then is in the queue behind the other
C24_Witness ==
    /\ fireMode = "lazy" /\ Drains(immQ) = 1
    /\ Len(delivered) = 1 /\ delivered[1].sn = 1 /\ delivered[1].buf
    /\ Len(eventQueue) = 2 /\ eventQueue[1].sn = 2 /\ eventQueue[2].sn = 3

\* C25: once _changeFireMode(1) has scheduled keepReleasing for a non-empty delivery queue,
\* and with finitely many events passed to _fire, the queue is eventually empty with _fire
\* being _normalFire; this needs no assumption on later mode switches, which do not stop a
\* drain.
C25_DrainTerminates ==
    (Drains(immQ) > 0) ~> (eventQueue = <<>> /\ fireMode = "normal")

\* a drain has delivered three buffered events and has ended: the queue is empty, no
\* keepReleasing is scheduled and _fire is _normalFire
C25_Witness ==
    /\ fireMode = "normal" /\ eventQueue = <<>> /\ Drains(immQ) = 0
    /\ Len(delivered) = 3
    /\ \A i \in 1..3 : delivered[i].buf

\* the events waiting in the delivery queue or in a scheduled emit
Pending ==
    {eventQueue[i] : i \in 1..Len(eventQueue)} \cup EmitsOf(tickQ) \cup EmitsOf(immQ)

\* C26: whatever the sequence of _fire, _changeFireMode(0), _changeFireMode(1) and
\* _clearEventQueue calls, with several drains started too, no event passed to _fire is
\* delivered twice or is delivered and still waiting to be, and the events that were buffered
\* are delivered in the order of their _fire calls.
C26_AtMostOnceInOrder ==
    /\ \A i, j \in 1..Len(delivered) :
           i < j => /\ delivered[i].sn # delivered[j].sn
                    /\ (delivered[i].buf /\ delivered[j].buf)
                           => delivered[i].sn < delivered[j].sn
    /\ \A i \in 1..Len(delivered) : \A e \in Pending : e.sn # delivered[i].sn
    /\ \A i, j \in 1..Len(eventQueue) : i < j => eventQueue[i].sn < eventQueue[j].sn

\* two drains are under way, started by two _changeFireMode(1) calls on a queue of three
\* events: the two oldest are delivered, in order, and the third is still in the queue
C26_Witness ==
    /\ Drains(immQ) = 2
    /\ Len(delivered) = 2 /\ delivered[1].buf /\ delivered[2].buf
    /\ delivered[1].sn = 1 /\ delivered[2].sn = 2
    /\ Len(eventQueue) = 1 /\ eventQueue[1].sn = 3

\* C27: every device-incoming invocation removes the queueEvent listener it installed,
\* whatever its outcome, so that no queueEvent listener is registered once no
\* device-incoming notification is in flight.
C27_ListenerRemoved ==
    (\A p \in ProcSet : p.kind # "devIn") => nListeners = 0

\* C28: once every notification in flight has finished (no cook, register or unregister
\* callback and no retry timer is pending), _gadEventQueue is empty.
C28_QueueEmptyAtRest ==
    procs = EmptyBag => gadEventQueue = <<>>

\* the device-leaving cascades of the bag B that wait for the callback of an unregister of
\* a gadget (pc = "unregGad") or of the device (pc = "unregDev")
LeaveIn(B, pc) ==
    LET S == {p \in BagToSet(B) : p.kind = "leave" /\ p.pc = pc}
    IN BagCardinality([p \in S |-> CopiesIn(p, B)])

DevUnregisterCalls(out) == CountCalls(out, "unregister", "device", last'.perm)

\* C29: with every unregister calling back eventually, no cascade stays in its gadget
\* unregisters: a cascade leaves them only by making its unregister call for the device,
\* whether the gadget unregister before it failed or not and whether entries of the gadget
\* table without a gadget in the registry were skipped or not; a cascade makes that call once,
\* as its last attempt, and the callback of the device unregister starts nothing more.
C29_CascadeReachesDevice ==
    /\ (LeaveIn(procs, "unregGad") > 0) ~> (LeaveIn(procs, "unregGad") = 0)
    /\ [][/\ LeaveIn(procs', "unregGad") < LeaveIn(procs, "unregGad")
              => /\ LeaveIn(procs', "unregGad") = LeaveIn(procs, "unregGad") - 1
                 /\ LeaveIn(procs', "unregDev") = LeaveIn(procs, "unregDev") + 1
                 /\ last'.act = "unregisterGadDone"
                 /\ DevUnregisterCalls(last'.out) = 1
                 /\ last'.out[Len(last'.out)].a = "device"
          /\ (HandlerStep /\ last'.act = "ncDevLeaving" /\ last'.out # <<>>)
              => /\ Len(last'.out) = 1
                 /\ LeaveIn(procs', "unregGad") + LeaveIn(procs', "unregDev")
                        = LeaveIn(procs, "unregGad") + LeaveIn(procs, "unregDev") + 1
          /\ (HandlerStep /\ last'.act = "unregisterDevDone")
              => /\ CountOp(last'.out, "unregister") = 0
                 /\ LeaveIn(procs', "unregDev") = LeaveIn(procs, "unregDev") - 1
                 /\ LeaveIn(procs', "unregGad") = LeaveIn(procs, "unregGad")
          /\ \A p \in BagToSet(procs') :
                 (p.kind = "leave")
                     => /\ p.pc \in {"unregGad", "unregDev"}
                        /\ Cardinality({i \in 1..Len(p.att) : p.att[i] = "device"})
                               = (IF p.pc = "unregDev" THEN 1 ELSE 0)
                        /\ p.pc = "unregDev" => p.att[Len(p.att)] = "device"]_vars

\* the unregister of a gadget has failed, the entry of the gadget table that has no gadget
\* in the registry was skipped, and the cascade has made its unregister call for the device
C29_Witness ==
    /\ last.act = "unregisterGadDone" /\ ~last.ok
    /\ CountCalls(last.out, "unregister", "device", last.perm) = 1
    /\ \E p \in ProcSet :
           /\ p.kind = "leave" /\ p.pc = "unregDev"
           /\ p.att = <<"gadget", "device">>
           /\ \E d \in 1..Len(devbox) : p.dev = d /\ Len(devbox[d].gadTable) = 2

=============================================================================
